---- MODULE Spec2Model ----
(***************************************************************************)
(* Octra faucet: the claim pipeline and its rate limiting.                 *)
(*                                                                         *)
(* The repository holds two implementations of the faucet claim:           *)
(*   - the browser one, src/utils/faucet.ts (stored in src/src/utils/      *)
(*     crypto.ts from line 64 on) driven by FaucetPage.handleClaim, with   *)
(*     an in-memory rateLimitStore;                                        *)
(*   - the backend one, POST /api/faucet/claim (backend/src/routes/        *)
(*     faucet.ts) with verifyRecaptcha (services/recaptchaService.ts),     *)
(*     claimTokens (services/faucetService.ts) and sendTransaction         *)
(*     (utils/blockchain.ts).                                              *)
(*                                                                         *)
(* Time is counted in hours: Date.now() is the variable now, and the       *)
(* code's millisecond constants are expressed in that unit.                *)
(*                                                                         *)
(* Specifications:                                                         *)
(*   Spec         the claims made in the browser                           *)
(*   Backend      the requests POST /claim of the backend                  *)
(*   Recaptcha    verifyRecaptcha of recaptchaService.ts called on its own *)
(*   Recaptcha004 the same for the copy of the service in part_004         *)
(***************************************************************************)
EXTENDS Integers, Sequences, FiniteSets, TLC

VARIABLES
    now,             \* Date.now(), in hours
    rateLimitStore,  \* crypto.ts:85  { addresses: Map, ips: Map }
    stats,           \* TxHistory.tsx:602  FaucetPage state: FaucetStats
    chain,           \* the faucet account on the node: nonce and balance
    call,            \* the invocations of sendFaucetTransaction in flight
    reply,           \* what the latest step returned to its caller, if anything
    successes,       \* history: the claims that returned success, in order
    limiter,         \* backend, routes/faucet.ts:11  the hits faucetLimiter has counted
    env              \* backend, process.env

vars == <<now, rateLimitStore, stats, chain, call, reply, successes, limiter, env>>

----------------------------------------------------------------------------
(* Bounds of the model *)

MaxCalls == 2        \* claims in flight at the same time
MaxClaims == 2       \* successful claims in one behaviour
MaxTime == 26        \* the clock stops here (hours)
MaxRandom == 1       \* Math.floor(Math.random() * 1000) is drawn from 0..MaxRandom
MaxHits == 2         \* requests from one IP in one window of faucetLimiter

Calls == 1..MaxCalls

----------------------------------------------------------------------------
(* Values *)

\* undefined / null where a string or an object is expected
undefined == "undefined"

\* undefined / null where a number is expected (a Map.get miss, a null return)
NoNumber == -1

\* JavaScript truthiness of a number-or-undefined: undefined, null and 0 are falsy
TruthyNum(v) == v # NoNumber /\ v # 0

\* JavaScript truthiness of a string-or-undefined: undefined, null and "" are falsy
TruthyStr(v) == v # undefined /\ v # ""

\* The address strings typed into the form; Length and StartsWithOct are the
\* two attributes validateAddress looks at.
AddressTexts == {"", "octshort", "octAlice000001", "octBob00000002"}

Length(s) ==
    CASE s = "" -> 0
      [] s = "octshort" -> 8
      [] OTHER -> 14

StartsWithOct(s) == s \in {"octshort", "octAlice000001", "octBob00000002"}

Addresses == {"octAlice000001", "octBob00000002"}

\* values of recaptchaRef.current?.getValue()
RecaptchaValues == {"", "token"}

----------------------------------------------------------------------------
(* The node's answers, as the code inspects them *)

BodyAccepted == "{\"status\":\"accepted\",\"tx_hash\":\"H64\"}"
BodyRejected == "{\"status\":\"rejected\"}"
BodyOkHash == "OK H64"
BodyPlain == "insufficient balance"
BodyEmpty == ""

\* JSON bodies: accepted without a tx_hash; rejected, with the words of an
\* OK line in a field
BodyAcceptedNoHash == "{\"status\":\"accepted\"}"
BodyRejectedOk == "{\"status\":\"rejected\",\"was\":\"OK H64\"}"

Bodies == {BodyAccepted, BodyRejected, BodyOkHash, BodyPlain, BodyEmpty}

\* JSON.parse(text) returns (an object) instead of throwing
ParsesAsJSON(text) ==
    text \in {BodyAccepted, BodyRejected, BodyAcceptedNoHash, BodyRejectedOk}

\* JSON.parse(text).status
JSONStatus(text) ==
    CASE text \in {BodyAccepted, BodyAcceptedNoHash} -> "accepted"
      [] text \in {BodyRejected, BodyRejectedOk} -> "rejected"
      [] OTHER -> undefined

\* JSON.parse(text).tx_hash
JSONTxHash(text) == IF text = BodyAccepted THEN "H64" ELSE undefined

\* text.match(/OK\s+([0-9a-fA-F]{64})/)[1], undefined without a match
OkHashMatch(text) == IF text \in {BodyOkHash, BodyRejectedOk} THEN "H64" ELSE undefined

\* The answers fetch('/api/send-tx') can produce: a response (ok is
\* "status in 200..299") or a rejected promise.
FetchRejected == [kind |-> "rejected", ok |-> FALSE, text |-> "Failed to fetch"]

FetchOutcomes == [kind : {"response"}, ok : BOOLEAN, text : Bodies] \cup {FetchRejected}

\* The answers the node gives to the claims of the pipeline: accepted,
\* a refusal with status 200, a refusal with status 500 (with and without
\* a body), no answer at all.
NodeAnswers ==
    {[kind |-> "response", ok |-> TRUE, text |-> BodyAccepted],
     [kind |-> "response", ok |-> TRUE, text |-> BodyRejected],
     [kind |-> "response", ok |-> FALSE, text |-> BodyPlain],
     [kind |-> "response", ok |-> FALSE, text |-> BodyEmpty],
     FetchRejected}

\* The node takes a transaction when its nonce is the account's next one and
\* the account holds the amount; only then does it answer "accepted".
NodeAccepts(tx) == tx.nonce = chain.nonce + 1 /\ chain.balance >= tx.value

SaysAccepted(resp) ==
    resp.kind = "response" /\ resp.ok /\ resp.text \in {BodyAccepted, BodyOkHash}

----------------------------------------------------------------------------
(* src/utils/faucet.ts: configuration *)

oneHour == 1
oneDay == 24 * oneHour
FAUCET_AMOUNT == 10
MU_FACTOR == 1000000
userIp == "demo-ip"
FAUCET_ADDRESS == "oct1234567890abcdef"

\* what the faucet account holds at the start: two disbursements
InitialBalance == 2 * FAUCET_AMOUNT

NoResult == [success |-> FALSE, txHash |-> undefined, error |-> undefined]
NoTx == [to_ |-> undefined, amount |-> undefined, nonce |-> NoNumber,
         ou |-> undefined, value |-> 0]

\* One invocation: where it stands, what it was called with, what it has got
\* so far. reads and submits count its fetchFaucetNonce and sendTransaction
\* calls, balance is the treasury balance it has read, nonceOutcome how its
\* request of the nonce ended.
IdleCall ==
    [pc |-> "idle", address |-> undefined, nonce |-> NoNumber, tx |-> NoTx,
     reads |-> 0, submits |-> 0, balance |-> NoNumber, nonceOutcome |-> undefined]

\* Nothing returned by the latest step
NoReply ==
    [op |-> "none", address |-> undefined, value |-> NoNumber,
     result |-> NoResult, call |-> IdleCall]

----------------------------------------------------------------------------
(* src/utils/crypto.ts, createTransaction (lines 16-63) *)

\* Math.floor(amount * MU_FACTOR) for a whole amount
amountMu(amount) == amount * MU_FACTOR

\* value is the amount the node reads back from the decimal string in amount
createTransaction_faucet(senderAddress, recipientAddress, amount, nonce) ==
    [to_ |-> recipientAddress,
     amount |-> ToString(amountMu(amount)),
     nonce |-> nonce,
     ou |-> IF amount < 1000 THEN "1" ELSE "3",
     value |-> amount]

----------------------------------------------------------------------------
(* src/utils/faucet.ts (src/src/utils/crypto.ts, lines 64-267) *)

AddressReason == "Address rate limit: 1 claim per 24 hours"
IpReason == "IP rate limit: 1 claim per hour"

\* checkRateLimit without the IP part
checkRateLimit_addressOnly(address, ip) ==
    LET lastAddressClaim == rateLimitStore.addresses[address]
    IN  IF TruthyNum(lastAddressClaim) /\ (now - lastAddressClaim) < oneDay
        THEN [canClaim |-> FALSE,
              timeUntilNext |-> oneDay - (now - lastAddressClaim),
              reason |-> AddressReason]
        ELSE [canClaim |-> TRUE, timeUntilNext |-> NoNumber, reason |-> undefined]

\* checkRateLimit looking at the record of the IP first
checkRateLimit_ipFirst(address, ip) ==
    LET lastAddressClaim == rateLimitStore.addresses[address]
        lastIpClaim == rateLimitStore.ips[ip]
    IN  IF TruthyStr(ip) /\ TruthyNum(lastIpClaim) /\ (now - lastIpClaim) < oneHour
        THEN [canClaim |-> FALSE,
              timeUntilNext |-> oneHour - (now - lastIpClaim),
              reason |-> IpReason]
        ELSE IF TruthyNum(lastAddressClaim) /\ (now - lastAddressClaim) < oneDay
        THEN [canClaim |-> FALSE,
              timeUntilNext |-> oneDay - (now - lastAddressClaim),
              reason |-> AddressReason]
        ELSE [canClaim |-> TRUE, timeUntilNext |-> NoNumber, reason |-> undefined]

\* checkRateLimit rejecting also at exactly 24 hours and at exactly 1 hour
checkRateLimit_nonStrict(address, ip) ==
    LET lastAddressClaim == rateLimitStore.addresses[address]
        lastIpClaim == rateLimitStore.ips[ip]
    IN  IF TruthyNum(lastAddressClaim) /\ (now - lastAddressClaim) <= oneDay
        THEN [canClaim |-> FALSE,
              timeUntilNext |-> oneDay - (now - lastAddressClaim),
              reason |-> AddressReason]
        ELSE IF TruthyStr(ip) /\ TruthyNum(lastIpClaim) /\ (now - lastIpClaim) <= oneHour
        THEN [canClaim |-> FALSE,
              timeUntilNext |-> oneHour - (now - lastIpClaim),
              reason |-> IpReason]
        ELSE [canClaim |-> TRUE, timeUntilNext |-> NoNumber, reason |-> undefined]

checkRateLimit(address, ip) ==
    LET lastAddressClaim == rateLimitStore.addresses[address]
        lastIpClaim == rateLimitStore.ips[ip]
    IN  IF TruthyNum(lastAddressClaim) /\ (now - lastAddressClaim) < oneDay
        THEN [canClaim |-> FALSE,
              timeUntilNext |-> oneDay - (now - lastAddressClaim),
              reason |-> AddressReason]
        ELSE IF TruthyStr(ip) /\ TruthyNum(lastIpClaim) /\ (now - lastIpClaim) < oneHour
        THEN [canClaim |-> FALSE,
              timeUntilNext |-> oneHour - (now - lastIpClaim),
              reason |-> IpReason]
        ELSE [canClaim |-> TRUE, timeUntilNext |-> NoNumber, reason |-> undefined]

\* updateRateLimit forgetting the address
updateRateLimit_ipOnly(address, ip) ==
    [addresses |-> rateLimitStore.addresses,
     ips |-> IF TruthyStr(ip)
             THEN [rateLimitStore.ips EXCEPT ![ip] = now]
             ELSE rateLimitStore.ips]

\* the store after updateRateLimit(address, ip)
updateRateLimit(address, ip) ==
    [addresses |-> [rateLimitStore.addresses EXCEPT ![address] = now],
     ips |-> IF TruthyStr(ip)
             THEN [rateLimitStore.ips EXCEPT ![ip] = now]
             ELSE rateLimitStore.ips]

verifyRecaptcha_faucet(token) == Length(token) > 0

\* what fetchFaucetNonce resolves to: data.nonce || 0 from an ok response,
\* a random number when the fetch or the response failed
NonceOutcomes == {"ok", "nofield", "failed"}

fetchFaucetNonce_faucet(outcome) ==
    CASE outcome = "ok" -> {IF TruthyNum(chain.nonce) THEN chain.nonce ELSE 0}
      [] outcome = "nofield" -> {0}
      [] outcome = "failed" -> 0..MaxRandom

\* the result of sendTransaction for an answer of fetch
sendTransaction_faucet(resp) ==
    IF resp.kind = "rejected"
    THEN [success |-> FALSE, hash |-> undefined, error |-> resp.text]
    ELSE IF resp.ok
    THEN IF ParsesAsJSON(resp.text)
         THEN IF JSONStatus(resp.text) = "accepted"
              THEN [success |-> TRUE, hash |-> JSONTxHash(resp.text), error |-> undefined]
              ELSE [success |-> TRUE, hash |-> resp.text, error |-> undefined]
         ELSE IF OkHashMatch(resp.text) # undefined
              THEN [success |-> TRUE, hash |-> OkHashMatch(resp.text), error |-> undefined]
              ELSE [success |-> TRUE, hash |-> resp.text, error |-> undefined]
    ELSE [success |-> FALSE, hash |-> undefined, error |-> resp.text]

\* getRemainingTime answering from checkRateLimit, the record of the IP
\* included
getRemainingTime_withIp(address) ==
    LET limit == checkRateLimit(address, userIp)
    IN  IF limit.canClaim THEN NoNumber ELSE limit.timeUntilNext

getRemainingTime(address) ==
    LET lastClaim == rateLimitStore.addresses[address]
        timeSinceLastClaim == now - lastClaim
    IN  IF ~TruthyNum(lastClaim) THEN NoNumber
        ELSE IF timeSinceLastClaim >= oneDay THEN NoNumber
        ELSE (oneDay - timeSinceLastClaim) \div oneHour

----------------------------------------------------------------------------
(* The claim in the browser: FaucetPage.handleClaim (TxHistory.tsx, lines   *)
(* 633-704) awaiting sendFaucetTransaction (crypto.ts, lines 191-254).      *)
(* Each action runs the code from one suspension point to the next.         *)

validateAddress(addr) == StartsWithOct(addr) /\ Length(addr) > 10

\* handleClaim after `await sendFaucetTransaction(...)`: the statistics
handleClaim_stats(result) ==
    IF result.success
    THEN [totalClaimed |-> stats.totalClaimed + 10,
          totalUsers |-> stats.totalUsers + 1,
          lastClaim |-> now]
    ELSE stats

\* sendFaucetTransaction returns result to handleClaim, which returns
Returns(c, result) ==
    reply' = [op |-> "handleClaim", address |-> c.address, value |-> NoNumber,
              result |-> result, call |-> c]

\* sendFaucetTransaction asking for the nonce whatever checkRateLimit said
sendFaucetTransaction_unchecked(recipientAddress, recaptchaToken) ==
    /\ call' = Append(call, [IdleCall EXCEPT !.address = recipientAddress,
                                             !.pc = "nonce", !.reads = 1])
    /\ reply' = NoReply

\* sendFaucetTransaction up to `await fetchFaucetNonce()`, or to its return
sendFaucetTransaction(recipientAddress, recaptchaToken) ==
    LET isRecaptchaValid == verifyRecaptcha_faucet(recaptchaToken)
        rateLimitCheck == checkRateLimit(recipientAddress, userIp)
        started == [IdleCall EXCEPT !.address = recipientAddress]
    IN  IF ~isRecaptchaValid
        THEN /\ Returns(started, [NoResult EXCEPT !.error = "reCAPTCHA verification failed"])
             /\ UNCHANGED call
        ELSE IF ~rateLimitCheck.canClaim
        THEN /\ Returns(started, [NoResult EXCEPT !.error = rateLimitCheck.reason])
             /\ UNCHANGED call
        ELSE /\ call' = Append(call, [started EXCEPT !.pc = "nonce", !.reads = 1])
             /\ reply' = NoReply

\* the invocations in flight, in the order they started
InFlight == 1..Len(call)

Remove(seq, i) == SubSeq(seq, 1, i - 1) \o SubSeq(seq, i + 1, Len(seq))

handleClaim(address, recaptchaValue) ==
    /\ Len(call) < MaxCalls
    /\ Len(successes) + Len(call) < MaxClaims
    /\ IF address = "" \/ ~validateAddress(address) \/ ~TruthyStr(recaptchaValue)
       THEN /\ Returns(IdleCall, [NoResult EXCEPT !.error = "toast"])
            /\ UNCHANGED call
       ELSE sendFaucetTransaction(address, recaptchaValue)
    /\ UNCHANGED <<now, rateLimitStore, stats, chain, successes, limiter, env>>

\* fetchFaucetNonce settles; the transaction is built and POSTed
NonceRead(r, outcome, nonce) ==
    /\ r \in InFlight
    /\ call[r].pc = "nonce"
    /\ nonce \in fetchFaucetNonce_faucet(outcome)
    /\ call' = [call EXCEPT ![r].pc = "submit", ![r].nonce = nonce,
                   ![r].nonceOutcome = outcome,
                   ![r].tx = createTransaction_faucet(FAUCET_ADDRESS, call[r].address,
                                                      FAUCET_AMOUNT, nonce + 1),
                   ![r].submits = call[r].submits + 1]
    /\ reply' = NoReply
    /\ UNCHANGED <<now, rateLimitStore, stats, chain, successes, limiter, env>>

\* the POST settles with resp; sendFaucetTransaction returns to handleClaim
Submitted(r, resp) ==
    /\ r \in InFlight
    /\ call[r].pc = "submit"
    /\ SaysAccepted(resp) => NodeAccepts(call[r].tx)
    /\ chain' = IF SaysAccepted(resp)
                THEN [nonce |-> chain.nonce + 1, balance |-> chain.balance - call[r].tx.value]
                ELSE chain
    /\ call' = Remove(call, r)
    /\ LET result == sendTransaction_faucet(resp)
       IN  IF result.success
           THEN /\ rateLimitStore' = updateRateLimit(call[r].address, userIp)
                /\ Returns(call[r], [success |-> TRUE, txHash |-> result.hash,
                                     error |-> undefined])
                /\ stats' = handleClaim_stats([success |-> TRUE])
                /\ successes' = Append(successes, [address |-> call[r].address, at |-> now])
           ELSE /\ Returns(call[r], [success |-> FALSE, txHash |-> undefined,
                                     error |-> IF TruthyStr(result.error)
                                               THEN result.error
                                               ELSE "Transaction failed"])
                /\ UNCHANGED <<rateLimitStore, stats, successes>>
    /\ UNCHANGED <<now, limiter, env>>

\* the page asks getRemainingTime(address)
Probe(address) ==
    /\ reply' = [NoReply EXCEPT !.op = "getRemainingTime", !.address = address,
                               !.value = getRemainingTime(address)]
    /\ UNCHANGED <<now, rateLimitStore, stats, chain, call, successes, limiter, env>>

\* The clock is read in the first hours and again from one day on.
Instants == {t \in 1..MaxTime : t <= 1 + oneHour \/ t >= oneDay}

Tick ==
    /\ \E t \in Instants : t > now
    /\ now' = CHOOSE t \in Instants : t > now /\ \A u \in Instants : u > now => t <= u
    /\ reply' = NoReply
    /\ UNCHANGED <<rateLimitStore, stats, chain, call, successes, limiter, env>>

Init ==
    /\ now = 1
    /\ rateLimitStore = [addresses |-> [a \in Addresses |-> NoNumber],
                         ips |-> [i \in {userIp} |-> NoNumber]]
    /\ stats = [totalClaimed |-> 0, totalUsers |-> 0, lastClaim |-> NoNumber]
    /\ chain = [nonce |-> 0, balance |-> InitialBalance]
    /\ call = <<>>
    /\ reply = NoReply
    /\ successes = <<>>
    /\ limiter = <<>>
    /\ env = <<>>

Next ==
    \/ \E a \in AddressTexts, v \in RecaptchaValues : handleClaim(a, v)
    \/ \E r \in Calls, o \in NonceOutcomes, n \in 0..(MaxClaims + MaxRandom) : NonceRead(r, o, n)
    \/ \E r \in Calls, resp \in NodeAnswers : Submitted(r, resp)
    \/ \E a \in Addresses : Probe(a)
    \/ Tick

Spec == Init /\ [][Next]_vars

----------------------------------------------------------------------------
(* The backend: values *)

\* req.ip of the clients
IPs == {"10.0.0.1", "10.0.0.2"}

\* req.body.address as sent to POST /claim; "oct_Carol00003" starts with oct
\* and is long enough, but is not alphanumeric
ClaimAddressTexts == {"octshort", "oct_Carol00003"} \cup Addresses

\* the token verifyRecaptcha is called with
Tokens == {"", " ", "03AGdBq2", "03AGexpired"}

\* req.body.recaptchaToken of the requests
ClaimTokens == {"", " ", "03AGdBq2"}

\* process.env.RECAPTCHA_SECRET_KEY
Secrets == {undefined, "", " ", "6LcSecret"}

\* String.prototype.trim on the strings above
Trim(s) == IF s = " " THEN "" ELSE s

\* /^oct[a-zA-Z0-9]+$/
MatchesOctAlnum(s) == s \in {"octshort", "octAlice000001", "octBob00000002"}

\* What axios resolves or rejects with. It rejects on a timeout, on a network
\* error and, with the default validateStatus, on every status outside
\* 200..299 ("Request failed with status code N").
AxiosRejects(answer) ==
    answer.kind # "response" \/ answer.status < 200 \/ answer.status > 299

AxiosMessage(answer) ==
    CASE answer.kind = "timeout" -> "timeout of 30000ms exceeded"
      [] answer.kind = "network" -> "Network Error"
      [] answer.status = 500 -> "Request failed with status code 500"
      [] OTHER -> "Request failed"

\* The answers of POST /send-tx: accepted, a refusal with status 200, a
\* refusal with status 202, a refusal with status 500, no answer.
SendTxAnswers ==
    {[kind |-> "response", status |-> 200, text |-> BodyAccepted],
     [kind |-> "response", status |-> 200, text |-> BodyRejected],
     [kind |-> "response", status |-> 202, text |-> BodyPlain],
     [kind |-> "response", status |-> 500, text |-> BodyPlain],
     [kind |-> "network", status |-> 0, text |-> ""]}

TakenByNode(answer) ==
    /\ answer.kind = "response" /\ answer.status = 200
    /\ answer.text \in {BodyAccepted, BodyOkHash}

\* the answers of POST /send-tx in every shape sendTransaction tells apart
SubmitAnswers ==
    SendTxAnswers \cup
    {[kind |-> "response", status |-> 200, text |-> b] :
        b \in {BodyOkHash, BodyPlain, BodyEmpty, BodyAcceptedNoHash, BodyRejectedOk}} \cup
    {[kind |-> "response", status |-> 202, text |-> BodyEmpty],
     [kind |-> "timeout", status |-> 0, text |-> ""]}

\* The answers of GET /address/:addr: the account's fields, an object without
\* them, no answer.
AddressInfoOutcomes == {"ok", "nofield", "failed"}

AddressInfo(outcome) ==
    CASE outcome = "ok" ->
            [kind |-> "response", status |-> 200, nonce |-> chain.nonce, balance |-> chain.balance]
      [] outcome = "nofield" ->
            [kind |-> "response", status |-> 200, nonce |-> NoNumber, balance |-> NoNumber]
      [] outcome = "failed" ->
            [kind |-> "network", status |-> 0, nonce |-> NoNumber, balance |-> NoNumber]

\* The answers of the siteverify endpoint: success, no success, a body
\* without data, a timeout, a network error, a status 500.
RecaptchaOutcomes ==
    {[kind |-> "response", status |-> 200, data |-> "object", success |-> TRUE],
     [kind |-> "response", status |-> 200, data |-> "object", success |-> FALSE],
     [kind |-> "response", status |-> 200, data |-> "null", success |-> FALSE],
     [kind |-> "response", status |-> 500, data |-> "object", success |-> FALSE],
     [kind |-> "timeout", status |-> 0, data |-> "null", success |-> FALSE],
     [kind |-> "network", status |-> 0, data |-> "null", success |-> FALSE]}

\* a value returned, or an exception thrown
Return(v) == [threw |-> FALSE, value |-> v, message |-> undefined]
Throw(v, message) == [threw |-> TRUE, value |-> v, message |-> message]

----------------------------------------------------------------------------
(* backend/src/services/recaptchaService.ts *)

\* verifyRecaptcha up to the request: TRUE when it goes on to axios.post,
\* FALSE when it returns false before
verifyRecaptcha_sends(RECAPTCHA_SECRET_KEY, token) ==
    /\ TruthyStr(RECAPTCHA_SECRET_KEY)
    /\ Trim(RECAPTCHA_SECRET_KEY) # ""
    /\ ~(~TruthyStr(token) \/ Trim(token) = "")

\* the try block, from the settled axios.post on
verifyRecaptcha_try(response) ==
    IF AxiosRejects(response)
    THEN Throw(FALSE, AxiosMessage(response))
    ELSE IF response.data = "null"
    THEN Throw(FALSE, "Cannot destructure property 'success'")
    ELSE IF ~response.success
    THEN Return(FALSE)
    ELSE Return(TRUE)

\* a catch block that hands the exception on
verifyRecaptcha_catch_rethrow(attempt) == attempt

\* the catch block
verifyRecaptcha_catch(attempt) ==
    IF attempt.threw THEN Return(FALSE) ELSE attempt

verifyRecaptcha_settled(response) == verifyRecaptcha_catch(verifyRecaptcha_try(response))

\* The copy of the service in src/unnamed/part_004: its verifyRecaptcha tests
\* the secret only before the request; its try and catch blocks are the same.
verifyRecaptcha_004_sends(RECAPTCHA_SECRET_KEY, token) ==
    TruthyStr(RECAPTCHA_SECRET_KEY)

----------------------------------------------------------------------------
(* backend/src/utils/blockchain.ts *)

\* getFaucetConfig(): the server does not start without these
FaucetConfig == [address |-> "octFaucet0000001", rpcUrl |-> "https://octra.network"]

\* A number with a fraction, as num / den. The denominators used are powers
\* of two, so that the product with MU_FACTOR is exact in a double.
Whole(n) == [num |-> n, den |-> 1]
Times(x, k) == [num |-> x.num * k, den |-> x.den]
LessThan(x, k) == x.num < k * x.den
floor(x) == x.num \div x.den

\* createTransaction with the boundary amount on the side of "1"
createTransaction_inclusive(senderAddress, recipientAddress, amount, nonce) ==
    [to_ |-> recipientAddress,
     amount |-> ToString(floor(Times(amount, MU_FACTOR))),
     nonce |-> nonce,
     ou |-> IF amount.num <= 1000 * amount.den THEN "1" ELSE "3",
     value |-> floor(Times(amount, MU_FACTOR)) \div MU_FACTOR]

\* value is the amount the node reads back from the decimal string in amount
createTransaction(senderAddress, recipientAddress, amount, nonce) ==
    [to_ |-> recipientAddress,
     amount |-> ToString(floor(Times(amount, MU_FACTOR))),
     nonce |-> nonce,
     ou |-> IF LessThan(amount, 1000) THEN "1" ELSE "3",
     value |-> floor(Times(amount, MU_FACTOR)) \div MU_FACTOR]

fetchFaucetBalance(info) ==
    IF AxiosRejects(info)
    THEN Throw(NoNumber, "Unable to fetch faucet balance")
    ELSE Return(IF TruthyNum(info.balance) THEN info.balance ELSE 0)

fetchFaucetNonce(info) ==
    IF AxiosRejects(info)
    THEN Throw(NoNumber, "Unable to fetch faucet nonce")
    ELSE Return(IF TruthyNum(info.nonce) THEN info.nonce ELSE 0)

\* sendTransaction building the transaction with the nonce it has read
sendTransaction_transaction_sameNonce(recipientAddress, amount, nonce) ==
    createTransaction(FaucetConfig.address, recipientAddress, Whole(amount), nonce)

\* sendTransaction: the transaction built after fetchFaucetNonce returned nonce
sendTransaction_transaction(recipientAddress, amount, nonce) ==
    createTransaction(FaucetConfig.address, recipientAddress, Whole(amount), nonce + 1)

\* sendTransaction trying the OK pattern on every body
sendTransaction_try_okFirst(response) ==
    IF AxiosRejects(response)
    THEN Throw(NoResult, AxiosMessage(response))
    ELSE IF response.status = 200
    THEN IF OkHashMatch(response.text) # undefined
         THEN Return([success |-> TRUE, hash |-> OkHashMatch(response.text), error |-> undefined])
         ELSE IF ParsesAsJSON(response.text) /\ JSONStatus(response.text) = "accepted"
         THEN Return([success |-> TRUE, hash |-> JSONTxHash(response.text), error |-> undefined])
         ELSE Return([success |-> TRUE, hash |-> response.text, error |-> undefined])
    ELSE Return([success |-> FALSE, hash |-> undefined, error |-> response.text])

\* sendTransaction: the try block from the settled axios.post on
sendTransaction_try(response) ==
    IF AxiosRejects(response)
    THEN Throw(NoResult, AxiosMessage(response))
    ELSE IF response.status = 200
    THEN IF ParsesAsJSON(response.text) /\ JSONStatus(response.text) = "accepted"
         THEN Return([success |-> TRUE, hash |-> JSONTxHash(response.text), error |-> undefined])
         ELSE IF ~ParsesAsJSON(response.text) /\ OkHashMatch(response.text) # undefined
         THEN Return([success |-> TRUE, hash |-> OkHashMatch(response.text), error |-> undefined])
         ELSE Return([success |-> TRUE, hash |-> response.text, error |-> undefined])
    ELSE Return([success |-> FALSE, hash |-> undefined, error |-> response.text])

\* sendTransaction: the catch block; the TransactionResult
sendTransaction_catch(attempt) ==
    IF attempt.threw
    THEN [success |-> FALSE, hash |-> undefined, error |-> attempt.message]
    ELSE attempt.value

----------------------------------------------------------------------------
(* backend/src/routes/faucet.ts *)

windowMs == oneHour
faucetLimiter_max == 1
LimiterMessage == "Rate limit exceeded. Only 1 claim per hour per IP address."

NoClient == [totalHits |-> 0, resetTime |-> 0]

\* express-rate-limit: the hit of a request on its key's window
faucetLimiter_increment(key) ==
    LET client == limiter[key]
        current == IF client.resetTime <= now
                   THEN [totalHits |-> 0, resetTime |-> now + windowMs]
                   ELSE client
    IN  [current EXCEPT !.totalHits = @ + 1]

validateClaimRequest(address, recaptchaToken) ==
    /\ Length(Trim(address)) >= 10
    /\ Length(Trim(address)) <= 100
    /\ MatchesOctAlnum(Trim(address))
    /\ recaptchaToken # ""

ClaimResult == [success |-> FALSE, txHash |-> undefined, error |-> undefined,
                nextClaimTime |-> NoNumber]

\* the route answering everything with res.json(result)
claimRoute_respond_always200(outcome) ==
    [status |-> 200, body |-> outcome.value]

\* the route answering everything with res.status(400).json(result)
claimRoute_respond_always400(outcome) ==
    [status |-> 400, body |-> outcome.value]

\* the end of the route: res.json(result), res.status(400).json(result),
\* or next(error) and the error handler's answer
claimRoute_respond(outcome) ==
    IF outcome.threw
    THEN [status |-> 500, body |-> [ClaimResult EXCEPT !.error = "Internal server error"]]
    ELSE IF outcome.value.success
    THEN [status |-> 200, body |-> outcome.value]
    ELSE [status |-> 400, body |-> outcome.value]

----------------------------------------------------------------------------
(* The requests of the backend *)

\* One POST /claim being served. requests counts the siteverify requests,
\* storeReads the rate-limit records read, reads and submits the nonce reads
\* and the transactions handed to POST /send-tx; nonceField is the nonce
\* field of the address info read, balance the balance read, sent the
\* TransactionResult sendTransaction returned.
NoSent == [success |-> FALSE, hash |-> undefined, error |-> undefined]

NewRequest ==
    [pc |-> "route", address |-> undefined, ip |-> undefined, token |-> undefined,
     requests |-> 0, storeReads |-> 0, balance |-> NoNumber,
     reads |-> 0, nonceField |-> NoNumber, tx |-> NoTx, submits |-> 0,
     sent |-> NoSent]

\* the step that sent a response, and the input it had
NoEvent == [step |-> "none", outcome |-> undefined, status |-> 0, text |-> "", landed |-> {}]
Event(step, outcome) == [NoEvent EXCEPT !.step = step, !.outcome = outcome]
EventOf(step, response) ==
    [step |-> step, outcome |-> response.kind, status |-> response.status,
     text |-> response.text, landed |-> {}]

\* Statistics as GET /stats returns them
NoStatistics ==
    [totalClaimed |-> 0, totalUsers |-> 0, totalTransactions |-> 0,
     lastClaim |-> NoNumber, faucetBalance |-> 0]

NoResponse ==
    [op |-> "none", address |-> undefined, ip |-> undefined, status |-> 0,
     body |-> ClaimResult, call |-> NewRequest, event |-> NoEvent,
     statistics |-> NoStatistics]

\* the response to request c
Responds(c, answer, event) ==
    reply' = [op |-> "POST /claim", address |-> c.address, ip |-> c.ip,
              status |-> answer.status, body |-> answer.body, call |-> c,
              event |-> event, statistics |-> NoStatistics]

Fails(error) == Return([ClaimResult EXCEPT !.error = error])

\* POST /claim with verifyRecaptcha requested before the validation errors
\* are looked at
ClaimRequest_captchaFirst(address, recaptchaToken, ip) ==
    /\ Len(call) < MaxCalls
    /\ stats.totalTransactions + Len(successes) + Len(call) < MaxClaims
    /\ limiter[ip].resetTime <= now \/ limiter[ip].totalHits < MaxHits
    /\ limiter' = [limiter EXCEPT ![ip] = faucetLimiter_increment(ip)]
    /\ LET req == [NewRequest EXCEPT !.address = Trim(address), !.ip = ip,
                                     !.token = recaptchaToken]
       IN  IF faucetLimiter_increment(ip).totalHits > faucetLimiter_max
           THEN /\ Responds(req, [status |-> 429,
                                  body |-> [ClaimResult EXCEPT !.error = LimiterMessage]],
                            Event("faucetLimiter", undefined))
                /\ UNCHANGED call
           ELSE IF ~verifyRecaptcha_sends(env.RECAPTCHA_SECRET_KEY, recaptchaToken)
           THEN /\ Responds(req, [status |-> 400,
                                  body |-> [ClaimResult EXCEPT
                                              !.error = "reCAPTCHA verification failed"]],
                            Event("captcha", undefined))
                /\ UNCHANGED call
           ELSE /\ call' = Append(call, [req EXCEPT !.pc = "captcha", !.requests = 1])
                /\ reply' = NoResponse
    /\ UNCHANGED <<now, rateLimitStore, stats, chain, successes, env>>

\* POST /claim arrives: faucetLimiter, validateClaimRequest, the handler up
\* to the request of verifyRecaptcha
ClaimRequest(address, recaptchaToken, ip) ==
    /\ Len(call) < MaxCalls
    /\ stats.totalTransactions + Len(successes) + Len(call) < MaxClaims
    /\ limiter[ip].resetTime <= now \/ limiter[ip].totalHits < MaxHits
    /\ limiter' = [limiter EXCEPT ![ip] = faucetLimiter_increment(ip)]
    /\ LET req == [NewRequest EXCEPT !.address = Trim(address), !.ip = ip,
                                     !.token = recaptchaToken]
       IN  IF faucetLimiter_increment(ip).totalHits > faucetLimiter_max
           THEN /\ Responds(req, [status |-> 429,
                                  body |-> [ClaimResult EXCEPT !.error = LimiterMessage]],
                            Event("faucetLimiter", undefined))
                /\ UNCHANGED call
           ELSE IF ~validateClaimRequest(address, recaptchaToken)
           THEN /\ Responds(req, [status |-> 400,
                                  body |-> [ClaimResult EXCEPT !.error = "Validation failed"]],
                            Event("validation", undefined))
                /\ UNCHANGED call
           ELSE IF ~verifyRecaptcha_sends(env.RECAPTCHA_SECRET_KEY, recaptchaToken)
           THEN /\ Responds(req, [status |-> 400,
                                  body |-> [ClaimResult EXCEPT
                                              !.error = "reCAPTCHA verification failed"]],
                            Event("captcha", undefined))
                /\ UNCHANGED call
           ELSE /\ call' = Append(call, [req EXCEPT !.pc = "captcha", !.requests = 1])
                /\ reply' = NoResponse
    /\ UNCHANGED <<now, rateLimitStore, stats, chain, successes, env>>

\* siteverify settles; on true claimTokens starts and reads address:<address>
CaptchaSettled(r, response) ==
    /\ r \in InFlight
    /\ call[r].pc = "captcha"
    /\ LET isRecaptchaValid == verifyRecaptcha_settled(response)
       IN  IF isRecaptchaValid.threw
           THEN /\ Responds(call[r], claimRoute_respond(isRecaptchaValid),
                            Event("captcha", response.kind))
                /\ call' = Remove(call, r)
           ELSE IF ~isRecaptchaValid.value
           THEN /\ Responds(call[r], [status |-> 400,
                                      body |-> [ClaimResult EXCEPT
                                                  !.error = "reCAPTCHA verification failed"]],
                            Event("captcha", response.kind))
                /\ call' = Remove(call, r)
           ELSE /\ call' = [call EXCEPT ![r].pc = "address"]
                /\ reply' = NoResponse
    /\ UNCHANGED <<now, rateLimitStore, stats, chain, successes, limiter, env>>

StoreOutcomes == {"ok", "unavailable"}

\* claimTokens, steps 1 and 2: the verdict on a record read from the store
\* (success stands for "go on")
claimTokens_read(outcome, lastClaim, window) ==
    IF outcome # "ok"
    THEN Fails("Service temporarily unavailable")
    ELSE IF lastClaim # NoNumber /\ now - lastClaim < window
    THEN Return([ClaimResult EXCEPT !.error = "Rate limit exceeded",
                                    !.nextClaimTime = lastClaim + window])
    ELSE Return([ClaimResult EXCEPT !.success = TRUE])

\* the read of address:<address> settles; the read of ip:<ip> is issued
AddressRead(r, outcome) ==
    /\ r \in InFlight
    /\ call[r].pc = "address"
    /\ LET verdict == claimTokens_read(outcome, rateLimitStore.addresses[call[r].address], oneDay)
       IN  IF verdict.value.success
           THEN /\ call' = [call EXCEPT ![r].pc = "ip", ![r].storeReads = @ + (IF outcome = "ok" THEN 1 ELSE 0)]
                /\ reply' = NoResponse
           ELSE /\ Responds(call[r], claimRoute_respond(verdict), Event("address", outcome))
                /\ call' = Remove(call, r)
    /\ UNCHANGED <<now, rateLimitStore, stats, chain, successes, limiter, env>>

\* the read of ip:<ip> settles; fetchFaucetBalance is called
IpRead(r, outcome) ==
    /\ r \in InFlight
    /\ call[r].pc = "ip"
    /\ LET verdict == claimTokens_read(outcome, rateLimitStore.ips[call[r].ip], oneHour)
       IN  IF verdict.value.success
           THEN /\ call' = [call EXCEPT ![r].pc = "balance", ![r].storeReads = @ + (IF outcome = "ok" THEN 1 ELSE 0)]
                /\ reply' = NoResponse
           ELSE /\ Responds(call[r], claimRoute_respond(verdict), Event("ip", outcome))
                /\ call' = Remove(call, r)
    /\ UNCHANGED <<now, rateLimitStore, stats, chain, successes, limiter, env>>

\* claimTokens, step 3: the verdict on the balance read
claimTokens_balance(balance) ==
    IF balance.threw
    THEN Fails(balance.message)
    ELSE IF balance.value < FAUCET_AMOUNT
    THEN Fails("Faucet is temporarily out of funds")
    ELSE Return([ClaimResult EXCEPT !.success = TRUE])

\* fetchFaucetBalance settles; sendTransaction starts and reads the nonce
BalanceRead(r, outcome) ==
    /\ r \in InFlight
    /\ call[r].pc = "balance"
    /\ LET balance == fetchFaucetBalance(AddressInfo(outcome))
           verdict == claimTokens_balance(balance)
       IN  IF verdict.value.success
           THEN /\ call' = [call EXCEPT ![r].pc = "nonce", ![r].balance = balance.value,
                                        ![r].reads = @ + 1]
                /\ reply' = NoResponse
           ELSE /\ Responds([call[r] EXCEPT !.balance = balance.value],
                            claimRoute_respond(verdict), Event("balance", outcome))
                /\ call' = Remove(call, r)
    /\ UNCHANGED <<now, rateLimitStore, stats, chain, successes, limiter, env>>

\* claimTokens, step 7: the result of a failed sendTransaction
claimTokens_failed(result) == Fails(result.error)

\* sendTransaction asking for the nonce once more when the read has failed
NonceSettled_retrying(r, outcome) ==
    /\ r \in InFlight
    /\ call[r].pc = "nonce"
    /\ LET info == AddressInfo(outcome)
           nonce == fetchFaucetNonce(info)
       IN  IF nonce.threw /\ call[r].reads < 2
           THEN /\ call' = [call EXCEPT ![r].reads = @ + 1]
                /\ reply' = NoResponse
           ELSE IF nonce.threw
           THEN /\ Responds([call[r] EXCEPT !.sent = sendTransaction_catch(nonce)],
                            claimRoute_respond(claimTokens_failed(sendTransaction_catch(nonce))),
                            Event("nonce", outcome))
                /\ call' = Remove(call, r)
           ELSE /\ call' = [call EXCEPT
                      ![r].pc = "submit",
                      ![r].nonceField = info.nonce,
                      ![r].tx = sendTransaction_transaction(call[r].address, FAUCET_AMOUNT,
                                                            nonce.value),
                      ![r].submits = @ + 1]
                /\ reply' = NoResponse
    /\ UNCHANGED <<now, rateLimitStore, stats, chain, successes, limiter, env>>

\* fetchFaucetNonce settles; the transaction is built and POSTed
NonceSettled(r, outcome) ==
    /\ r \in InFlight
    /\ call[r].pc = "nonce"
    /\ LET info == AddressInfo(outcome)
           nonce == fetchFaucetNonce(info)
       IN  IF nonce.threw
           THEN /\ Responds([call[r] EXCEPT !.sent = sendTransaction_catch(nonce)],
                            claimRoute_respond(claimTokens_failed(sendTransaction_catch(nonce))),
                            Event("nonce", outcome))
                /\ call' = Remove(call, r)
           ELSE /\ call' = [call EXCEPT
                      ![r].pc = "submit",
                      ![r].nonceField = info.nonce,
                      ![r].tx = sendTransaction_transaction(call[r].address, FAUCET_AMOUNT,
                                                            nonce.value),
                      ![r].submits = @ + 1]
                /\ reply' = NoResponse
    /\ UNCHANGED <<now, rateLimitStore, stats, chain, successes, limiter, env>>

\* claimTokens, step 6: the records and the statistics written on success
claimTokens_store(address, ip) ==
    [addresses |-> [rateLimitStore.addresses EXCEPT ![address] = now],
     ips |-> [rateLimitStore.ips EXCEPT ![ip] = now]]

claimTokens_stats(address) ==
    [totalTransactions |-> stats.totalTransactions + 1,
     totalClaimed |-> stats.totalClaimed + FAUCET_AMOUNT,
     totalUsers |-> IF address \in stats.seen THEN stats.totalUsers ELSE stats.totalUsers + 1,
     lastClaim |-> now,
     seen |-> stats.seen \cup {address}]

\* claimTokens, step 6: the three writes issued after a successful submit
AllWrites == {"address", "ip", "stats"}

\* claimTokens reporting a failure when one of the writes has failed
claimTokens_recorded_strict(result, landed) ==
    IF landed = AllWrites
    THEN Return([ClaimResult EXCEPT !.success = TRUE, !.txHash = result.hash])
    ELSE Fails("Failed to record claim")

\* claimTokens, step 7: the result after a successful submit; a write that
\* failed is logged
claimTokens_recorded(result, landed) ==
    Return([ClaimResult EXCEPT !.success = TRUE, !.txHash = result.hash])

\* POST /send-tx settles; claimTokens records or reports, the route answers.
\* landed are the writes that reach the store; a claim the statistics miss
\* is kept in successes, as the log keeps it.
SendTxRecorded(r, response, landed) ==
    /\ r \in InFlight
    /\ call[r].pc = "submit"
    /\ TakenByNode(response) => NodeAccepts(call[r].tx)
    /\ chain' = IF TakenByNode(response)
                THEN [nonce |-> chain.nonce + 1, balance |-> chain.balance - call[r].tx.value]
                ELSE chain
    /\ call' = Remove(call, r)
    /\ LET result == sendTransaction_catch(sendTransaction_try(response))
           written == claimTokens_store(call[r].address, call[r].ip)
       IN  IF result.success
           THEN /\ rateLimitStore' =
                      [addresses |-> IF "address" \in landed THEN written.addresses
                                     ELSE rateLimitStore.addresses,
                       ips |-> IF "ip" \in landed THEN written.ips ELSE rateLimitStore.ips]
                /\ stats' = IF "stats" \in landed THEN claimTokens_stats(call[r].address)
                            ELSE stats
                /\ successes' = IF "stats" \in landed THEN successes
                                ELSE Append(successes, [address |-> call[r].address,
                                                        at |-> now])
                /\ Responds([call[r] EXCEPT !.sent = result],
                            claimRoute_respond(claimTokens_recorded(result, landed)),
                            [EventOf("submit", response) EXCEPT !.landed = landed])
           ELSE /\ landed = AllWrites
                /\ Responds([call[r] EXCEPT !.sent = result],
                            claimRoute_respond(claimTokens_failed(result)),
                            EventOf("submit", response))
                /\ UNCHANGED <<rateLimitStore, stats, successes>>
    /\ UNCHANGED <<now, limiter, env>>

\* the same while the store takes every write
SendTxSettled(r, response) == SendTxRecorded(r, response, AllWrites)

\* a record of the store written at time t with time-to-live ttl, at time at
Expire(t, ttl, at) == IF t # NoNumber /\ at - t >= ttl THEN NoNumber ELSE t

\* Time passes: the store drops the records whose time-to-live is over,
\* faucetLimiter the windows that have ended.
ServerTick ==
    /\ \E t \in Instants : t > now
    /\ now' = CHOOSE t \in Instants : t > now /\ \A u \in Instants : u > now => t <= u
    /\ rateLimitStore' =
          [addresses |-> [a \in Addresses |-> Expire(rateLimitStore.addresses[a], oneDay, now')],
           ips |-> [i \in IPs |-> Expire(rateLimitStore.ips[i], oneHour, now')]]
    /\ limiter' = [i \in IPs |-> IF limiter[i].resetTime <= now' THEN NoClient ELSE limiter[i]]
    /\ reply' = NoResponse
    /\ UNCHANGED <<stats, chain, call, successes, env>>

\* a started server: startServer leaves when RECAPTCHA_SECRET_KEY is falsy
BackendInit ==
    /\ now = 1
    /\ rateLimitStore = [addresses |-> [a \in Addresses |-> NoNumber],
                         ips |-> [i \in IPs |-> NoNumber]]
    /\ stats = [totalTransactions |-> 0, totalClaimed |-> 0, totalUsers |-> 0,
                lastClaim |-> NoNumber, seen |-> {}]
    /\ chain = [nonce |-> 0, balance |-> InitialBalance]
    /\ call = <<>>
    /\ reply = NoResponse
    /\ successes = <<>>
    /\ limiter = [i \in IPs |-> NoClient]
    /\ env \in {[RECAPTCHA_SECRET_KEY |-> s] : s \in {x \in Secrets : TruthyStr(x)}}

BackendNext ==
    \/ \E a \in ClaimAddressTexts, t \in ClaimTokens, i \in IPs : ClaimRequest(a, t, i)
    \/ \E r \in Calls, o \in RecaptchaOutcomes : CaptchaSettled(r, o)
    \/ \E r \in Calls, o \in StoreOutcomes : AddressRead(r, o)
    \/ \E r \in Calls, o \in StoreOutcomes : IpRead(r, o)
    \/ \E r \in Calls, o \in AddressInfoOutcomes : BalanceRead(r, o)
    \/ \E r \in Calls, o \in AddressInfoOutcomes : NonceSettled(r, o)
    \/ \E r \in Calls, o \in SendTxAnswers : SendTxSettled(r, o)
    \/ ServerTick

Backend == BackendInit /\ [][BackendNext]_vars

----------------------------------------------------------------------------
(* verifyRecaptcha called on its own *)

NoVerdict ==
    [op |-> "none", token |-> undefined, ip |-> undefined, threw |-> FALSE,
     value |-> FALSE, requests |-> 0, outcome |-> undefined]

\* a call of verifyRecaptcha(token, clientIP) up to its return (sends is
\* FALSE) or to axios.post (sends is TRUE)
VerifyCall(sends, token, clientIP) ==
    /\ Len(call) < MaxCalls
    /\ IF sends
       THEN /\ call' = Append(call, [NewRequest EXCEPT !.pc = "captcha", !.token = token,
                                                      !.ip = clientIP, !.requests = 1])
            /\ reply' = NoVerdict
       ELSE /\ reply' = [NoVerdict EXCEPT !.op = "verifyRecaptcha", !.token = token,
                                          !.ip = clientIP]
            /\ UNCHANGED call
    /\ UNCHANGED <<now, rateLimitStore, stats, chain, successes, limiter, env>>

\* recaptchaService.ts: verifyRecaptcha(token, clientIP) is called
VerifyCalled(token, clientIP) ==
    VerifyCall(verifyRecaptcha_sends(env.RECAPTCHA_SECRET_KEY, token), token, clientIP)

\* part_004: verifyRecaptcha(token, clientIP) is called
VerifyCalled_004(token, clientIP) ==
    VerifyCall(verifyRecaptcha_004_sends(env.RECAPTCHA_SECRET_KEY, token), token, clientIP)

\* axios.post settles and verifyRecaptcha returns
VerifySettled(r, response) ==
    /\ r \in InFlight
    /\ call[r].pc = "captcha"
    /\ LET verdict == verifyRecaptcha_settled(response)
       IN  reply' = [op |-> "verifyRecaptcha", token |-> call[r].token, ip |-> call[r].ip,
                     threw |-> verdict.threw, value |-> verdict.value,
                     requests |-> call[r].requests,
                     outcome |-> IF response.kind # "response" THEN response.kind
                                 ELSE IF response.status # 200 THEN "status 500"
                                 ELSE IF response.data = "null" THEN "no data"
                                 ELSE IF response.success THEN "success" ELSE "no success"]
    /\ call' = Remove(call, r)
    /\ UNCHANGED <<now, rateLimitStore, stats, chain, successes, limiter, env>>

RecaptchaInit ==
    /\ now = 1
    /\ rateLimitStore = [addresses |-> [a \in Addresses |-> NoNumber],
                         ips |-> [i \in IPs |-> NoNumber]]
    /\ stats = [totalTransactions |-> 0, totalClaimed |-> 0, totalUsers |-> 0,
                lastClaim |-> NoNumber, seen |-> {}]
    /\ chain = [nonce |-> 0, balance |-> InitialBalance]
    /\ call = <<>>
    /\ reply = NoVerdict
    /\ successes = <<>>
    /\ limiter = [i \in IPs |-> NoClient]
    /\ env \in {[RECAPTCHA_SECRET_KEY |-> s] : s \in Secrets}

RecaptchaNext ==
    \/ \E t \in Tokens, i \in IPs : VerifyCalled(t, i)
    \/ \E r \in Calls, o \in RecaptchaOutcomes : VerifySettled(r, o)

Recaptcha == RecaptchaInit /\ [][RecaptchaNext]_vars

Recaptcha004Next ==
    \/ \E t \in Tokens, i \in IPs : VerifyCalled_004(t, i)
    \/ \E r \in Calls, o \in RecaptchaOutcomes : VerifySettled(r, o)

Recaptcha004 == RecaptchaInit /\ [][Recaptcha004Next]_vars

\* Every outbound call of a request in flight returns, fails or times out:
\* the request at position r takes its next step.
Settles(r) ==
    \/ \E o \in RecaptchaOutcomes : CaptchaSettled(r, o)
    \/ \E o \in StoreOutcomes : AddressRead(r, o) \/ IpRead(r, o)
    \/ \E o \in AddressInfoOutcomes : BalanceRead(r, o) \/ NonceSettled(r, o)
    \/ \E o \in SendTxAnswers : SendTxSettled(r, o)

BackendFair == Backend /\ \A r \in Calls : WF_vars(Settles(r))

----------------------------------------------------------------------------
(* The backend with a store whose writes can fail *)

StoreNext ==
    \/ \E a \in ClaimAddressTexts, t \in ClaimTokens, i \in IPs : ClaimRequest(a, t, i)
    \/ \E r \in Calls, o \in RecaptchaOutcomes : CaptchaSettled(r, o)
    \/ \E r \in Calls, o \in StoreOutcomes : AddressRead(r, o)
    \/ \E r \in Calls, o \in StoreOutcomes : IpRead(r, o)
    \/ \E r \in Calls, o \in AddressInfoOutcomes : BalanceRead(r, o)
    \/ \E r \in Calls, o \in AddressInfoOutcomes : NonceSettled(r, o)
    \/ \E r \in Calls, o \in SendTxAnswers, landed \in SUBSET AllWrites :
          SendTxRecorded(r, o, landed)
    \/ ServerTick

Store == BackendInit /\ [][StoreNext]_vars

----------------------------------------------------------------------------
(* The backend with GET /stats *)

\* getStats answering with the time of the request as lastClaim
getStats_touching(storeOutcome, balance) ==
    [totalClaimed |-> stats.totalClaimed, totalUsers |-> stats.totalUsers,
     totalTransactions |-> stats.totalTransactions, lastClaim |-> now,
     faucetBalance |-> IF balance.threw THEN 0 ELSE balance.value]

\* getStats: the four counters read from the store and a fresh balance; a
\* read that fails gives the zero value of its field
getStats(storeOutcome, balance) ==
    IF storeOutcome = "ok"
    THEN [totalClaimed |-> stats.totalClaimed, totalUsers |-> stats.totalUsers,
          totalTransactions |-> stats.totalTransactions, lastClaim |-> stats.lastClaim,
          faucetBalance |-> IF balance.threw THEN 0 ELSE balance.value]
    ELSE [NoStatistics EXCEPT !.faucetBalance = IF balance.threw THEN 0 ELSE balance.value]

\* GET /stats: res.json(await getStats())
StatsRequest(storeOutcome, balanceOutcome) ==
    /\ reply' = [NoResponse EXCEPT
                   !.op = "GET /stats", !.status = 200,
                   !.event = Event("getStats", storeOutcome),
                   !.statistics = getStats(storeOutcome,
                                           fetchFaucetBalance(AddressInfo(balanceOutcome)))]
    /\ UNCHANGED <<now, rateLimitStore, stats, chain, call, successes, limiter, env>>

ServiceNext ==
    \/ BackendNext
    \/ \E o \in StoreOutcomes, b \in AddressInfoOutcomes : StatsRequest(o, b)

Service == BackendInit /\ [][ServiceNext]_vars

----------------------------------------------------------------------------
(* sendTransaction of backend/src/utils/blockchain.ts called on its own *)

\* process.env.FAUCET_PRIVATE_KEY (FAUCET_PUBLIC_KEY and FAUCET_ADDRESS are
\* tested the same way)
FaucetKeys == {undefined, "", "cHJpdmF0ZQ=="}

\* getFaucetConfig(): the configuration, or the Error it throws
getFaucetConfig(FAUCET_PRIVATE_KEY) ==
    IF ~TruthyStr(FAUCET_PRIVATE_KEY)
    THEN Throw(FaucetConfig, "FAUCET_PRIVATE_KEY is not configured")
    ELSE Return(FaucetConfig)

NoReturn ==
    [op |-> "none", threw |-> FALSE, message |-> undefined, result |-> NoSent,
     call |-> NewRequest, event |-> NoEvent]

\* sendTransaction returns result, or throws
SendReturns(c, outcome, event) ==
    reply' = [op |-> "sendTransaction", threw |-> outcome.threw,
              message |-> outcome.message, result |-> outcome.value,
              call |-> c, event |-> event]

\* sendTransaction(recipientAddress, FAUCET_AMOUNT) up to await fetchFaucetNonce()
SendCalled(recipientAddress) ==
    /\ Len(call) < MaxCalls
    /\ chain.nonce + Len(call) < MaxClaims
    /\ LET config == getFaucetConfig(env.FAUCET_PRIVATE_KEY)
           c == [NewRequest EXCEPT !.address = recipientAddress]
       IN  IF config.threw
           THEN /\ SendReturns(c, Throw(NoSent, config.message), Event("config", undefined))
                /\ UNCHANGED call
           ELSE /\ call' = Append(call, [c EXCEPT !.pc = "nonce", !.reads = 1])
                /\ reply' = NoReturn
    /\ UNCHANGED <<now, rateLimitStore, stats, chain, successes, limiter, env>>

\* fetchFaucetNonce settles; the transaction is built and POSTed
SendNonceSettled(r, outcome) ==
    /\ r \in InFlight
    /\ call[r].pc = "nonce"
    /\ LET info == AddressInfo(outcome)
           nonce == fetchFaucetNonce(info)
       IN  IF nonce.threw
           THEN /\ SendReturns(call[r], Return(sendTransaction_catch(nonce)),
                               Event("nonce", outcome))
                /\ call' = Remove(call, r)
           ELSE /\ call' = [call EXCEPT
                      ![r].pc = "submit",
                      ![r].nonceField = info.nonce,
                      ![r].tx = sendTransaction_transaction(call[r].address, FAUCET_AMOUNT,
                                                            nonce.value),
                      ![r].submits = @ + 1]
                /\ reply' = NoReturn
    /\ UNCHANGED <<now, rateLimitStore, stats, chain, successes, limiter, env>>

\* POST /send-tx settles and sendTransaction returns
SendSettled(r, response) ==
    /\ r \in InFlight
    /\ call[r].pc = "submit"
    /\ TakenByNode(response) => NodeAccepts(call[r].tx)
    /\ chain' = IF TakenByNode(response)
                THEN [nonce |-> chain.nonce + 1, balance |-> chain.balance - call[r].tx.value]
                ELSE chain
    /\ call' = Remove(call, r)
    /\ SendReturns(call[r], Return(sendTransaction_catch(sendTransaction_try(response))),
                   EventOf("submit", response))
    /\ UNCHANGED <<now, rateLimitStore, stats, successes, limiter, env>>

SendTxInit ==
    /\ now = 1
    /\ rateLimitStore = [addresses |-> [a \in Addresses |-> NoNumber],
                         ips |-> [i \in IPs |-> NoNumber]]
    /\ stats = [totalTransactions |-> 0, totalClaimed |-> 0, totalUsers |-> 0,
                lastClaim |-> NoNumber, seen |-> {}]
    /\ chain = [nonce |-> 0, balance |-> InitialBalance]
    /\ call = <<>>
    /\ reply = NoReturn
    /\ successes = <<>>
    /\ limiter = [i \in IPs |-> NoClient]
    /\ env \in {[RECAPTCHA_SECRET_KEY |-> "6LcSecret", FAUCET_PRIVATE_KEY |-> k] :
                   k \in FaucetKeys}

SendTxNext ==
    \/ \E a \in Addresses : SendCalled(a)
    \/ \E r \in Calls, o \in AddressInfoOutcomes : SendNonceSettled(r, o)
    \/ \E r \in Calls, o \in SubmitAnswers : SendSettled(r, o)

SendTx == SendTxInit /\ [][SendTxNext]_vars

----------------------------------------------------------------------------
(* createTransaction of backend/src/utils/blockchain.ts called on its own *)

\* amounts around the boundary 1000, whole and with a fraction
AmountNumerators == {0, 1, 10, 999, 1000, 1001, 1999, 2000, 2001}
AmountDenominators == {1, 2, 128}
Amounts == {[num |-> n, den |-> d] : n \in AmountNumerators, d \in AmountDenominators}

NoTransaction == [op |-> "none", amount |-> Whole(0), tx |-> NoTx]

CreateTransactionCalled(recipientAddress, amount, nonce) ==
    /\ reply' = [op |-> "createTransaction", amount |-> amount,
                 tx |-> createTransaction(FaucetConfig.address, recipientAddress, amount, nonce)]
    /\ UNCHANGED <<now, rateLimitStore, stats, chain, call, successes, limiter, env>>

CreateTxInit ==
    /\ now = 1
    /\ rateLimitStore = [addresses |-> [a \in Addresses |-> NoNumber],
                         ips |-> [i \in IPs |-> NoNumber]]
    /\ stats = [totalTransactions |-> 0, totalClaimed |-> 0, totalUsers |-> 0,
                lastClaim |-> NoNumber, seen |-> {}]
    /\ chain = [nonce |-> 0, balance |-> InitialBalance]
    /\ call = <<>>
    /\ reply = NoTransaction
    /\ successes = <<>>
    /\ limiter = [i \in IPs |-> NoClient]
    /\ env = [RECAPTCHA_SECRET_KEY |-> "6LcSecret", FAUCET_PRIVATE_KEY |-> "cHJpdmF0ZQ=="]

CreateTxNext ==
    \E a \in Addresses, x \in Amounts, n \in 1..(MaxClaims + 1) :
        CreateTransactionCalled(a, x, n)

CreateTx == CreateTxInit /\ [][CreateTxNext]_vars

----------------------------------------------------------------------------
(* Properties of the claim in the browser (Spec) *)

Claimed == {successes[i] : i \in 1..Len(successes)}

\* the latest step was getRemainingTime(a)
Asked(a) == reply.op = "getRemainingTime" /\ reply.address = a

\* the step is handleClaim calling sendFaucetTransaction for address a
Starts(a) ==
    \/ /\ Len(call') = Len(call) + 1
       /\ call'[Len(call')].pc = "nonce" /\ call'[Len(call')].address = a
    \/ /\ call' = call
       /\ reply'.op = "handleClaim" /\ reply'.address = a /\ reply'.call.reads = 0

\* the step is that call returning a cooldown rejection, nothing called
Rejects(a, reasons) ==
    /\ call' = call
    /\ reply'.op = "handleClaim" /\ reply'.address = a
    /\ ~reply'.result.success
    /\ reply'.result.error \in reasons
    /\ reply'.call.reads = 0 /\ reply'.call.submits = 0 /\ reply'.call.tx = NoTx

C3_RateLimitedMakesNoRpc ==
    [][\A a \in Addresses :
        (Starts(a) /\ ~checkRateLimit(a, userIp).canClaim)
        => /\ Rejects(a, {AddressReason, IpReason})
           /\ chain' = chain]_vars

C3_Witness ==
    \E c \in Claimed :
        /\ reply.op = "handleClaim"
        /\ reply.address = c.address
        /\ reply.result.error = AddressReason
        /\ reply.call.reads = 0 /\ reply.call.submits = 0 /\ reply.call.tx = NoTx

\* C4 as stated: a transaction is submitted only by an attempt that has read
\* a treasury balance of at least the disbursement amount.
C4_SubmitOnlyAfterBalanceRead ==
    \A r \in InFlight :
        call[r].submits > 0
        => call[r].balance # NoNumber /\ call[r].balance >= FAUCET_AMOUNT

----------------------------------------------------------------------------
(* Properties of the backend (Backend, Recaptcha) *)

\* the latest step answered a POST /claim
Answered == reply.op = "POST /claim"

\* C5: every transaction sendTransaction hands to POST /send-tx carries the
\* nonce n + 1, n being what the nonce read of the same attempt returned: the
\* nonce field of the address info, 0 when it has none. One read, one submit.
C5_SubmittedNonceIsReadPlusOne ==
    \A c \in {call[r] : r \in InFlight} \cup {reply.call} :
        c.submits > 0
        => /\ c.reads = 1 /\ c.submits = 1
           /\ c.tx.nonce = (IF c.nonceField = NoNumber THEN 0 ELSE c.nonceField) + 1

C5_Witness ==
    \E r \in InFlight :
        /\ call[r].pc = "submit"
        /\ call[r].nonceField = 1
        /\ call[r].tx.nonce = 2

\* C6 as stated: when POST /send-tx fails, the step that reports it leaves
\* the rate-limit records and the statistics as they are, and the error in
\* the response is the text the node answered with.
C6_FailedSubmitReportedVerbatim ==
    [][(reply'.op = "POST /claim" /\ reply'.event.step = "submit" /\ ~reply'.body.success)
        => /\ rateLimitStore' = rateLimitStore
           /\ stats' = stats
           /\ reply'.event.outcome = "response" => reply'.body.error = reply'.event.text]_vars

\* C7 as stated: after a POST /claim that failed on validation, on the
\* CAPTCHA or on the submit, the next request from the same IP for the same
\* address, sent at once, is not answered by a rate limiter.
C7_RetryAfterFailureNotLimited ==
    [][(/\ Answered
        /\ reply.status = 400
        /\ reply.event.step \in {"validation", "captcha", "submit"}
        /\ limiter' # limiter
        /\ reply'.op = "POST /claim"
        /\ reply'.ip = reply.ip
        /\ reply'.address = reply.address)
        => reply'.status # 429]_vars

\* C8: verifyRecaptcha returns a boolean whatever the secret, the token, the
\* client IP and the outcome of the request are, and returns true only with
\* a configured secret, a non-empty token and an answer of success.
C8_VerifyRecaptchaNeverThrows ==
    reply.op = "verifyRecaptcha"
    => /\ ~reply.threw
       /\ reply.value
          => /\ env.RECAPTCHA_SECRET_KEY \notin {undefined, "", " "}
             /\ reply.token \notin {"", " "}
             /\ reply.outcome = "success"

C8_Witness ==
    /\ reply.op = "verifyRecaptcha"
    /\ reply.outcome = "timeout"
    /\ ~reply.threw
    /\ ~reply.value

\* C9 as stated: verifyRecaptcha called with an empty or blank token returns
\* false and sends no request to the verification endpoint, whatever the
\* secret: no call in flight carries such a token, and the calls that
\* returned with one returned false with no request sent.
C9_EmptyTokenSendsNothing ==
    /\ \A r \in InFlight : call[r].token \notin {"", " "}
    /\ (reply.op = "verifyRecaptcha" /\ reply.token \in {"", " "})
       => ~reply.value /\ ~reply.threw /\ reply.requests = 0

\* C10: a claim whose read of a rate-limit record fails is answered without
\* success, has read no nonce and submitted nothing; and a claim gets to the
\* balance check only with both records read.
C10_StoreFailureDeniesClaim ==
    /\ (Answered /\ reply.event.outcome = "unavailable")
       => /\ reply.status # 200
          /\ ~reply.body.success
          /\ reply.call.reads = 0 /\ reply.call.submits = 0 /\ reply.call.tx = NoTx
    /\ \A r \in InFlight :
          call[r].pc \in {"balance", "nonce", "submit"} => call[r].storeReads = 2

C10_Witness ==
    /\ Answered
    /\ reply.event.step = "ip"
    /\ reply.event.outcome = "unavailable"
    /\ reply.status = 400
    /\ reply.call.storeReads = 1

\* C11 as stated: for every answer of POST /send-tx whose status is not 200,
\* the result of sendTransaction has success false and, as error, the body
\* of that answer.
C11_Non200FailsWithBody ==
    (Answered /\ reply.event.step = "submit" /\ reply.event.outcome = "response"
        /\ reply.event.status # 200)
    => /\ ~reply.call.sent.success
       /\ reply.call.sent.error = reply.event.text

\* C12 as stated: every failure after validation reaches the caller as a
\* result with success false and an error; sendTransaction returns such a
\* result and never throws, a missing faucet configuration included.
C12_SendTransactionNeverThrows ==
    reply.op = "sendTransaction"
    => /\ ~reply.threw
       /\ ~reply.result.success => TruthyStr(reply.result.error)

\* C13 as stated, for the counters of the faucet page: totalUsers is the
\* number of distinct addresses with a successful claim, and totalClaimed is
\* the amount of a claim times the number of successful claims.
C13_CountersMatchSuccesses ==
    /\ stats.totalUsers = Cardinality({successes[i].address : i \in 1..Len(successes)})
    /\ stats.totalClaimed = FAUCET_AMOUNT * Len(successes)

\* the steps of claimTokens at which the route answers with a claim result
ClaimSteps == {"address", "ip", "balance", "nonce", "submit"}

\* C14: POST /claim answers 200 exactly when the claim result has success,
\* and 400 for a validation failure, a CAPTCHA failure and every claim result
\* without success; a request leaves the handler only with its response, one
\* request at a time, and a step that takes a request in answers nothing.
C14_StatusFollowsResult ==
    /\ [](Answered =>
            /\ reply.status = 200 <=> reply.body.success
            /\ reply.event.step \in {"validation", "captcha"} => reply.status = 400
            /\ (reply.event.step \in ClaimSteps /\ ~reply.body.success)
               => reply.status = 400)
    /\ [][/\ Len(call') >= Len(call) - 1
          /\ Len(call') = Len(call) - 1 => Answered'
          /\ Len(call') = Len(call) + 1 => ~Answered']_vars

C14_Witness ==
    /\ Answered
    /\ reply.event.step = "submit"
    /\ reply.status = 400
    /\ ~reply.body.success
    /\ stats.totalTransactions = 1

\* C15: whatever made verifyRecaptcha return false (blank secret, blank or
\* refused token, answer without success, HTTP error, timeout, network error),
\* the answer of POST /claim is the same: 400 with the one body.
C15_CaptchaFailureLooksTheSame ==
    (Answered /\ reply.event.step = "captcha")
    => /\ reply.status = 400
       /\ reply.body = [ClaimResult EXCEPT !.error = "reCAPTCHA verification failed"]

C15_Witness ==
    /\ Answered
    /\ reply.event.step = "captcha"
    /\ reply.event.outcome = "timeout"
    /\ reply.status = 400
    /\ reply.call.requests = 1

\* C16 as stated, for the claim in the browser: an attempt whose request of
\* the nonce failed or was answered without a nonce holds no nonce value and
\* has submitted no transaction.
C16_FailedNonceReadSubmitsNothing ==
    \A r \in InFlight :
        call[r].nonceOutcome \in {"failed", "nofield"}
        => call[r].nonce = NoNumber /\ call[r].submits = 0

\* the four counters of a Statistics record
Counters(st) ==
    <<st.totalClaimed, st.totalUsers, st.totalTransactions, st.lastClaim>>

C18_ProbeReadsAddressRecordOnly ==
    [][reply'.op = "getRemainingTime"
       => /\ UNCHANGED <<rateLimitStore, stats, chain, call, successes>>
          /\ LET lastClaim == rateLimitStore.addresses[reply'.address]
             IN  IF lastClaim = NoNumber \/ now - lastClaim >= oneDay
                 THEN reply'.value = NoNumber
                 ELSE reply'.value = (oneDay - (now - lastClaim)) \div oneHour]_vars

C18_Witness ==
    /\ reply.op = "getRemainingTime"
    /\ reply.value = NoNumber
    /\ rateLimitStore.addresses[reply.address] = NoNumber
    /\ rateLimitStore.ips[userIp] # NoNumber
    /\ now - rateLimitStore.ips[userIp] < oneHour

\* C19: createTransaction gives ou "1" to an amount below 1000 and "3" to an
\* amount of 1000 or more, and the amount field is the decimal string of
\* the largest whole number not above amount * 1000000.
C19_OuAndAmountMu ==
    reply.op = "createTransaction"
    => LET x == reply.amount
           near == (x.num * MU_FACTOR) \div x.den
           mu == CHOOSE m \in (near - 1)..(near + 1) :
                     /\ m * x.den <= x.num * MU_FACTOR
                     /\ (m + 1) * x.den > x.num * MU_FACTOR
       IN  /\ x.num < 1000 * x.den => reply.tx.ou = "1"
           /\ x.num >= 1000 * x.den => reply.tx.ou = "3"
           /\ reply.tx.amount = ToString(mu)

C19_Witness ==
    /\ reply.op = "createTransaction"
    /\ reply.amount = Whole(1000)
    /\ reply.tx.ou = "3"
    /\ reply.tx.amount = "1000000000"

\* C20 as stated: when the node takes up a submitted transaction, built from
\* a nonce the node itself reported, the nonce of the transaction is the
\* account's nonce on the chain plus 1, however the attempts interleave.
C20_SubmittedNonceIsChainNoncePlusOne ==
    [][(Answered' /\ reply'.event.step = "submit" /\ reply'.event.outcome = "response"
          /\ reply'.call.nonceField # NoNumber)
       => reply'.call.tx.nonce = chain.nonce + 1]_vars

Rank(pc) ==
    CASE pc = "route" -> 0 [] pc = "captcha" -> 1 [] pc = "address" -> 2
      [] pc = "ip" -> 3 [] pc = "balance" -> 4 [] pc = "nonce" -> 5 [] pc = "submit" -> 6

\* C23: a claim attempt is a line without a way back. A step takes one
\* request in, or moves one request to its next step, or lets one request
\* leave with its response; a request issues at most one CAPTCHA
\* verification, one nonce read and one submit; it leaves either recorded
\* (200, records and statistics written) or with nothing written; and when
\* every outbound call settles, every request in flight is answered.
C23_AttemptsTerminate ==
    /\ [](\A c \in {call[r] : r \in InFlight} \cup {reply.call} :
             c.requests <= 1 /\ c.reads <= 1 /\ c.submits <= 1)
    /\ [][\/ call' = call
          \/ /\ Len(call') = Len(call) + 1
             /\ SubSeq(call', 1, Len(call)) = call
             /\ call'[Len(call')].pc = "captcha"
          \/ \E r \in InFlight :
                /\ Len(call') = Len(call)
                /\ call' = [call EXCEPT ![r] = call'[r]]
                /\ Rank(call'[r].pc) = Rank(call[r].pc) + 1
          \/ \E r \in InFlight :
                /\ call' = Remove(call, r)
                /\ Answered'
                /\ reply'.call.address = call[r].address
                /\ reply'.call.pc = call[r].pc
                /\ IF reply'.status = 200
                   THEN /\ rateLimitStore'.addresses[reply'.address] = now
                        /\ stats'.totalTransactions = stats.totalTransactions + 1
                   ELSE /\ rateLimitStore' = rateLimitStore
                        /\ stats' = stats]_vars
    /\ <>[](call = <<>>)

C23_Witness ==
    /\ Answered
    /\ reply.event.step = "submit"
    /\ reply.event.outcome = "network"
    /\ reply.call.requests = 1 /\ reply.call.reads = 1 /\ reply.call.submits = 1
    /\ call = <<>>

\* the record r, kept for the time ttl, counts at this instant
Inside(r, ttl) == r # NoNumber /\ now - r < ttl

\* C24: no record is ever deleted, and a claim for an address passes the
\* cooldown check exactly when neither the record of the address is less
\* than 24h old nor the record of the IP less than 1h old: at exactly 24h
\* and exactly 1h it passes, before that it is rejected.
C24_CooldownsExpireByComparison ==
    /\ [][\A a \in Addresses :
            /\ rateLimitStore.addresses[a] # NoNumber
               => rateLimitStore'.addresses[a] # NoNumber
            /\ Starts(a)
               => IF Inside(rateLimitStore.addresses[a], oneDay)
                     \/ Inside(rateLimitStore.ips[userIp], oneHour)
                  THEN Rejects(a, {AddressReason, IpReason})
                  ELSE /\ Len(call') = Len(call) + 1
                       /\ call'[Len(call')].reads = 1]_vars
    /\ [][rateLimitStore.ips[userIp] # NoNumber
          => rateLimitStore'.ips[userIp] # NoNumber]_vars

\* a claim for the address starts exactly 24h after its recorded claim
C24_Witness ==
    /\ Len(successes) = 1
    /\ now - successes[1].at = oneDay
    /\ rateLimitStore.addresses[successes[1].address] = successes[1].at
    /\ rateLimitStore.ips[userIp] = successes[1].at
    /\ Len(call) = 1
    /\ call[1].address = successes[1].address
    /\ call[1].pc = "nonce"
    /\ reply = NoReply

\* C25 as stated: a claim for an address that no one has claimed for, from
\* an IP no one has claimed from, goes as it would alone, whatever claims for
\* other addresses from other IPs do meanwhile: the transaction it built from
\* the nonce the node reported is one the node can take when it gets to it.
C25_OtherClaimsDoNotInterfere ==
    [][\A r \in InFlight :
          (/\ call[r].pc = "submit"
           /\ call[r].nonceField # NoNumber
           /\ call[r].address \notin stats.seen
           /\ rateLimitStore.ips[call[r].ip] = NoNumber
           /\ \A q \in InFlight \ {r} :
                 call[q].address # call[r].address /\ call[q].ip # call[r].ip
           /\ call' = Remove(call, r)
           /\ Answered' /\ reply'.event.outcome = "response")
          => NodeAccepts(call[r].tx)]_vars

\* C26: when the submit succeeded, the claim is answered 200 with success
\* and the transaction hash whichever of the three writes failed; each write
\* that landed is in the store after the step, and each that failed has left
\* its record or the statistics as they were.
C26_WriteFailureKeepsSuccess ==
    [][(Answered' /\ reply'.event.step = "submit" /\ reply'.call.sent.success)
       => LET c == reply'.call
              landed == reply'.event.landed
          IN  /\ reply'.status = 200
              /\ reply'.body.success
              /\ reply'.body.txHash = c.sent.hash
              /\ reply'.body.error = undefined
              /\ rateLimitStore'.addresses[c.address] =
                    IF "address" \in landed THEN now ELSE rateLimitStore.addresses[c.address]
              /\ rateLimitStore'.ips[c.ip] =
                    IF "ip" \in landed THEN now ELSE rateLimitStore.ips[c.ip]
              /\ stats'.totalTransactions =
                    IF "stats" \in landed THEN stats.totalTransactions + 1
                    ELSE stats.totalTransactions]_vars

\* the statistics were written, the record of the address was not
C26_Witness ==
    /\ Answered
    /\ reply.event.step = "submit"
    /\ reply.event.landed = {"ip", "stats"}
    /\ reply.status = 200
    /\ reply.body.txHash = "H64"
    /\ stats.totalTransactions = 1
    /\ rateLimitStore.addresses[reply.address] = NoNumber
    /\ rateLimitStore.ips[reply.ip] = now

\* C27: the record of the address is looked at before that of the IP. With
\* both inside their windows checkRateLimit gives the address reason and
\* the time left of the address's 24h, and a claim is rejected with that
\* reason; the IP reason and the time left of the IP's hour are given only
\* when the record of the address does not count.
C27_AddressBeforeIp ==
    /\ [](\A a \in Addresses :
            LET verdict == checkRateLimit(a, userIp)
                lastAddressClaim == rateLimitStore.addresses[a]
                lastIpClaim == rateLimitStore.ips[userIp]
            IN  /\ Inside(lastAddressClaim, oneDay)
                   => /\ ~verdict.canClaim
                      /\ verdict.reason = AddressReason
                      /\ now + verdict.timeUntilNext = lastAddressClaim + oneDay
                /\ verdict.reason = IpReason
                   => /\ ~Inside(lastAddressClaim, oneDay)
                      /\ Inside(lastIpClaim, oneHour)
                      /\ now + verdict.timeUntilNext = lastIpClaim + oneHour)
    /\ [][\A a \in Addresses :
            (/\ Starts(a)
             /\ Inside(rateLimitStore.addresses[a], oneDay)
             /\ Inside(rateLimitStore.ips[userIp], oneHour))
            => Rejects(a, {AddressReason})]_vars

\* rejected with the address reason while the IP's hour is running too
C27_Witness ==
    /\ reply.op = "handleClaim"
    /\ reply.result.error = AddressReason
    /\ Inside(rateLimitStore.addresses[reply.address], oneDay)
    /\ Inside(rateLimitStore.ips[userIp], oneHour)
    /\ call = <<>>

\* sendTransaction has returned for a submit response with HTTP status 200
Answered200 ==
    /\ reply.op = "sendTransaction"
    /\ reply.event.step = "submit"
    /\ reply.event.outcome = "response"
    /\ reply.event.status = 200

\* C28 as stated: sendTransaction returns success for every submit response
\* with HTTP status 200, whatever its body; a JSON body whose status is not
\* "accepted" gives the serialized body as hash, and the OK pattern is tried
\* only on a body that does not parse as JSON.
C28_Status200IsSuccess ==
    Answered200
    => LET text == reply.event.text
       IN  /\ ~reply.threw
           /\ reply.result.success
           /\ (ParsesAsJSON(text) /\ JSONStatus(text) # "accepted")
                  => reply.result.hash = text
           /\ (ParsesAsJSON(text) /\ JSONStatus(text) = "accepted")
                  => reply.result.hash = JSONTxHash(text)
           /\ ~ParsesAsJSON(text)
                  => reply.result.hash = IF OkHashMatch(text) # undefined
                                         THEN OkHashMatch(text) ELSE text

\* a rejection object answered with status 200 came back as a success with
\* the body as hash
C28_Witness ==
    /\ Answered200
    /\ reply.event.text = BodyRejectedOk
    /\ reply.result.success
    /\ reply.result.hash = BodyRejectedOk

\* C29 as stated: every result of sendTransaction with success true carries a
\* defined, non-empty transaction hash and no error, and every result with
\* success false carries an error and no hash, for every shape of submit
\* response.
C29_SuccessHasHashFailureHasError ==
    (reply.op = "sendTransaction" /\ ~reply.threw)
    => IF reply.result.success
       THEN /\ reply.result.hash # undefined
            /\ reply.result.hash # ""
            /\ reply.result.error = undefined
       ELSE /\ reply.result.error # undefined
            /\ reply.result.hash = undefined

-----------------------------------------------------------------------------
\* The start of the backend process: server.ts from the loaded environment
\* to app.listen, with the SIGTERM and SIGINT handlers and the requests that
\* reach the port.

requiredEnvVars ==
    {"RECAPTCHA_SECRET_KEY", "FAUCET_PRIVATE_KEY", "FAUCET_PUBLIC_KEY", "FAUCET_ADDRESS"}

\* the values dotenv leaves in process.env for a variable
EnvValues == {undefined, "", "set"}

\* requiredEnvVars.filter(varName => !process.env[varName])
missingEnvVars(e) == {varName \in requiredEnvVars : ~TruthyStr(e[varName])}

\* The process: pc is the code it waits at, code is the argument of
\* process.exit, connect and quit are the promises of redisClient.connect()
\* and redisClient.quit().
NewProcess ==
    [op |-> "process", pc |-> "load", code |-> NoNumber, listening |-> FALSE,
     connect |-> "none", quit |-> "none"]

\* process.exit(code)
exit(process, code) ==
    [process EXCEPT !.pc = "exited", !.code = code, !.listening = FALSE]

\* the module's check of requiredEnvVars
checkRequiredEnvVars(process, e) ==
    IF missingEnvVars(e) # {}
    THEN exit(process, 1)
    ELSE [process EXCEPT !.pc = "startServer"]

\* startServer up to await redisClient.connect()
startServer_checks(process, e) ==
    IF ~TruthyStr(e.RECAPTCHA_SECRET_KEY)
    THEN exit(process, 1)
    ELSE IF ~TruthyStr(e.FAUCET_ADDRESS)
    THEN exit(process, 1)
    ELSE [process EXCEPT !.pc = "connect", !.connect = "pending"]

\* startServer listening whatever became of connect()
startServer_connected_anyway(process, outcome) ==
    [process EXCEPT !.pc = "listening", !.listening = TRUE, !.connect = outcome]

\* startServer from the settled redisClient.connect() on: app.listen, or the
\* catch block
startServer_connected(process, outcome) ==
    IF outcome = "resolved"
    THEN [process EXCEPT !.pc = "listening", !.listening = TRUE, !.connect = outcome]
    ELSE exit([process EXCEPT !.connect = outcome], 1)

\* The module is evaluated: the environment is checked, the client and the
\* application are made, the signal handlers are registered and
\* startServer() is called.
ModuleEvaluated ==
    /\ reply.pc = "load"
    /\ reply' = checkRequiredEnvVars(reply, env)
    /\ UNCHANGED <<now, rateLimitStore, stats, chain, call, successes, limiter, env>>

StartServerCalled ==
    /\ reply.pc = "startServer"
    /\ reply' = startServer_checks(reply, env)
    /\ UNCHANGED <<now, rateLimitStore, stats, chain, call, successes, limiter, env>>

\* redisClient.connect() settles
ConnectSettled(outcome) ==
    /\ reply.pc = "connect"
    /\ reply' = startServer_connected(reply, outcome)
    /\ UNCHANGED <<now, rateLimitStore, stats, chain, call, successes, limiter, env>>

\* SIGTERM or SIGINT: the handler up to await redisClient.quit()
SignalReceived ==
    /\ reply.pc \in {"connect", "listening"}
    /\ reply.quit = "none"
    /\ reply' = [reply EXCEPT !.quit = "pending"]
    /\ UNCHANGED <<now, rateLimitStore, stats, chain, call, successes, limiter, env>>

\* redisClient.quit() settles: process.exit(0), or an unhandled rejection
\* that ends the process or is only reported; QUIT is answered on a
\* connected client only
QuitSettled(outcome, fatal) ==
    /\ reply.pc \in {"connect", "listening"}
    /\ reply.quit = "pending"
    /\ outcome = "resolved" => reply.connect = "resolved"
    /\ reply' = IF outcome = "resolved"
                THEN exit([reply EXCEPT !.quit = outcome], 0)
                ELSE IF fatal
                THEN exit([reply EXCEPT !.quit = outcome], 1)
                ELSE [reply EXCEPT !.quit = outcome]
    /\ UNCHANGED <<now, rateLimitStore, stats, chain, call, successes, limiter, env>>

\* A request for POST /api/faucet/claim reaches the port: it is handled when
\* the process listens, and refused otherwise
RequestArrives(ip) ==
    /\ Len(successes) < MaxCalls
    /\ successes' = Append(successes, [ip |-> ip, handled |-> reply.listening,
                                       connect |-> reply.connect,
                                       signalled |-> reply.quit # "none"])
    /\ UNCHANGED <<now, rateLimitStore, stats, chain, call, reply, limiter, env>>

StartupInit ==
    /\ now = 1
    /\ rateLimitStore = [addresses |-> [a \in Addresses |-> NoNumber],
                         ips |-> [i \in IPs |-> NoNumber]]
    /\ stats = [totalTransactions |-> 0, totalClaimed |-> 0, totalUsers |-> 0,
                lastClaim |-> NoNumber, seen |-> {}]
    /\ chain = [nonce |-> 0, balance |-> InitialBalance]
    /\ call = <<>>
    /\ reply = NewProcess
    /\ successes = <<>>
    /\ limiter = [i \in IPs |-> NoClient]
    /\ env \in [requiredEnvVars -> EnvValues]

StartupNext ==
    \/ ModuleEvaluated
    \/ StartServerCalled
    \/ \E o \in {"resolved", "rejected"} : ConnectSettled(o)
    \/ SignalReceived
    \/ \E o \in {"resolved", "rejected"}, fatal \in BOOLEAN : QuitSettled(o, fatal)
    \/ \E ip \in IPs : RequestArrives(ip)

Startup == StartupInit /\ [][StartupNext]_vars

\* C30 as stated: the backend listens only after the required environment
\* variables were found present and the Redis connection has completed; with
\* a variable missing or a failed connect the process exits and never
\* listens; no request is handled before the connection has completed.
C30_ListensOnlyAfterConnect ==
    /\ reply.listening => (missingEnvVars(env) = {} /\ reply.connect = "resolved")
    /\ missingEnvVars(env) # {} => reply.pc \in {"load", "exited"}
    /\ reply.connect = "rejected" => (reply.pc = "exited" /\ reply.code = 1)
    /\ reply.pc = "exited" => ~reply.listening
    /\ \A i \in 1..Len(successes) :
           successes[i].handled => successes[i].connect = "resolved"

\* a request was handled by the listening process, and another was refused
\* while Redis was still connecting
C30_Witness ==
    /\ reply.listening
    /\ Len(successes) = 2
    /\ ~successes[1].handled /\ successes[1].connect = "pending"
    /\ successes[2].handled

====
